---- MODULE Spec2Model ----
(***************************************************************************)
(* Model of src/netmd/query_utils.rs: the format-string driven codec       *)
(* format_query (encoder) and scan_query (decoder).  Both functions are a  *)
(* loop over the characters of the format string; one loop iteration is    *)
(* one step of the model.  A caller either calls format_query and feeds    *)
(* the bytes it produced to scan_query, or calls scan_query on a reply of  *)
(* its own.                                                                *)
(*                                                                         *)
(* Characters are one-character strings, a format string is a sequence of  *)
(* characters, a byte is a number in 0..255 and Option::None of a          *)
(* character is the empty string.  Number values are kept inside the       *)
(* signed 32-bit range, on which the casts `as i32' and `as i64' are the   *)
(* identity.                                                               *)
(***************************************************************************)
EXTENDS Integers, Sequences, FiniteSets, TLC

VARIABLES format, args, query_result, fq, sq, link

vars == <<format, args, query_result, fq, sq, link>>

\* ------------------------------------------------------------------ bounds
MaxTokens == 2
MaxArgs == 2
MaxInput == 3

\* ------------------------------------------------------------- value model
NoChar == ""

Number(v) == [tag |-> "Number", n |-> v, a |-> <<>>]

Array(bytes) == [tag |-> "Array", n |-> 0, a |-> bytes]

FORMAT_TYPE_LEN_DICT == [b |-> 1, w |-> 2, d |-> 4, q |-> 8]

NoErr == [kind |-> "None", char |-> NoChar, index |-> 0, expected |-> 0, actual |-> 0]

UnrecognizedChar(ch) == [NoErr EXCEPT !.kind = "UnrecognizedChar", !.char = ch]

InputMismatch(i, e, a) ==
    [NoErr EXCEPT !.kind = "InputMismatch", !.index = i, !.expected = e, !.actual = a]

\* A panic: `what' names the unwrap or assertion that failed.
Panic(st, what) == [st EXCEPT !.status = "Panic", !.err = [NoErr EXCEPT !.kind = what]]

Fail(st, e) == [st EXCEPT !.status = "Err", !.err = e]

\* Result::unwrap of QueryValue::to_i64 / to_vec: the accessor itself returns
\* Err(TypeMismatch) on the other variant.
to_i64(value) == IF value.tag = "Number" THEN "Ok" ELSE "TypeMismatch"

to_vec(value) == IF value.tag = "Array" THEN "Ok" ELSE "TypeMismatch"

\* ---------------------------------------------------------------- numerics
Pow256(k) == IF k = 0 THEN 1 ELSE IF k = 1 THEN 256 ELSE IF k = 2 THEN 65536 ELSE 16777216

\* Byte k (0 = least significant) of the two's complement form of v.
ByteOf(v, k) == IF k >= 4 THEN (IF v < 0 THEN 255 ELSE 0) ELSE (v \div Pow256(k)) % 256

AsU8(v) == v % 256

AsI16(v) == ((v + 32768) % 65536) - 32768

\* every Number of the model lies in the signed 32-bit range
AsI32(v) == v

\* little-endian order instead of big-endian
to_le_bytes(v, width) == [i \in 1..width |-> ByteOf(v, i - 1)]

to_be_bytes(v, width) == [i \in 1..width |-> ByteOf(v, width - i)]

RECURSIVE BeValue(_, _)
\* the bytes read as a big-endian number, continuing from acc
BeValue(bytes, acc) ==
    IF bytes = <<>> THEN acc ELSE BeValue(Tail(bytes), acc * 256 + Head(bytes))

\* u8/u16::from_be_bytes (signed = FALSE), i16/i32/i64::from_be_bytes (TRUE)
from_be_bytes(bytes, signed) ==
    IF signed /\ Head(bytes) >= 128
    THEN BeValue(Tail(bytes), Head(bytes) - 256)
    ELSE BeValue(bytes, 0)

RECURSIVE int_to_bcd(_)
\* one decimal digit per nibble; nothing is produced for a value below 1
int_to_bcd(value) ==
    IF value <= 0 THEN 0 ELSE (value % 10) + 16 * int_to_bcd(value \div 10)

RECURSIVE bcd_to_int(_)
bcd_to_int(bcd) ==
    IF bcd = 0 THEN 0 ELSE (bcd % 16) + 10 * bcd_to_int(bcd \div 16)

HexValue(c) ==
    CASE c = "0" -> 0 [] c = "1" -> 1 [] c = "2" -> 2 [] c = "3" -> 3
      [] c = "4" -> 4 [] c = "5" -> 5 [] c = "6" -> 6 [] c = "7" -> 7
      [] c = "8" -> 8 [] c = "9" -> 9
      [] c \in {"a", "A"} -> 10 [] c \in {"b", "B"} -> 11 [] c \in {"c", "C"} -> 12
      [] c \in {"d", "D"} -> 13 [] c \in {"e", "E"} -> 14 [] c \in {"f", "F"} -> 15
      [] OTHER -> -1

\* u8::from_str_radix of the two characters, radix 16: -1 stands for Err.  A
\* leading plus sign is accepted by from_str_radix.
from_str_radix(hi, lo) ==
    IF HexValue(lo) < 0 THEN -1
    ELSE IF hi = "+" THEN HexValue(lo)
    ELSE IF HexValue(hi) < 0 THEN -1
    ELSE 16 * HexValue(hi) + HexValue(lo)

\* ----------------------------------------------------------------- encoder
\* The locals of format_query before its loop; pos is the loop's position in
\* the format string, arg the number of arguments taken from arg_stack.
FormatLocals ==
    [pos |-> 1, result |-> <<>>, half |-> NoChar, arg |-> 0,
     endianness_override |-> NoChar, escaped |-> FALSE,
     status |-> "Running", err |-> NoErr]

FormatIdle == [FormatLocals EXCEPT !.status = "Idle"]

FormatOverride(st, ch) == [st EXCEPT !.endianness_override = ch]

FormatInteger(st, ch, as) ==
    IF st.arg >= Len(as) THEN Panic(st, "NoArgument")
    ELSE IF to_i64(as[st.arg + 1]) # "Ok" THEN Panic(st, "TypeMismatch")
    ELSE LET value == as[st.arg + 1].n
             bytes == CASE ch = "b" -> <<AsU8(value)>>
                        [] ch = "w" -> to_be_bytes(AsI16(value), 2)
                        [] ch = "d" -> to_be_bytes(AsI32(value), 4)
                        [] ch = "q" -> to_be_bytes(value, 8)
         IN  [st EXCEPT !.arg = @ + 1, !.result = @ \o bytes,
                        !.endianness_override = NoChar]

\* the length prefix of `s' counts the array only, and low byte first
FormatArrayShort(st, ch, as) ==
    IF st.arg >= Len(as) THEN Panic(st, "NoArgument")
    ELSE IF to_vec(as[st.arg + 1]) # "Ok" THEN Panic(st, "TypeMismatch")
    ELSE LET array_value == as[st.arg + 1].a
             array_length == Len(array_value)
             high == IF ch # "z" THEN <<array_length % 256>> ELSE <<>>
             low == IF ch # "z" THEN <<(array_length \div 256) % 256>>
                    ELSE <<array_length % 256>>
             nul == IF ch = "s" THEN <<0>> ELSE <<>>
         IN  [st EXCEPT !.arg = @ + 1,
                        !.result = @ \o high \o low \o array_value \o nul]

FormatArray(st, ch, as) ==
    IF st.arg >= Len(as) THEN Panic(st, "NoArgument")
    ELSE IF to_vec(as[st.arg + 1]) # "Ok" THEN Panic(st, "TypeMismatch")
    ELSE LET array_value == as[st.arg + 1].a
             array_length == Len(array_value) + (IF ch = "s" THEN 1 ELSE 0)
             high == IF ch # "z" THEN <<(array_length \div 256) % 256>> ELSE <<>>
             low == <<array_length % 256>>
             nul == IF ch = "s" THEN <<0>> ELSE <<>>
         IN  [st EXCEPT !.arg = @ + 1,
                        !.result = @ \o high \o low \o array_value \o nul]

FormatRaw(st, as) ==
    IF st.arg >= Len(as) THEN Panic(st, "NoArgument")
    ELSE IF to_vec(as[st.arg + 1]) # "Ok" THEN Panic(st, "TypeMismatch")
    ELSE [st EXCEPT !.arg = @ + 1, !.result = @ \o as[st.arg + 1].a]

FormatBcd(st, ch, as) ==
    IF st.arg >= Len(as) THEN Panic(st, "NoArgument")
    ELSE IF to_i64(as[st.arg + 1]) # "Ok" THEN Panic(st, "TypeMismatch")
    ELSE LET converted == int_to_bcd(AsI32(as[st.arg + 1].n))
             high == IF ch = "W" THEN <<(converted \div 256) % 256>> ELSE <<>>
         IN  [st EXCEPT !.arg = @ + 1, !.result = @ \o high \o <<converted % 256>>]

\* `#' is taken for `*' instead of being rejected
FormatDirectiveLax(st, ch, as) ==
    LET s1 == [st EXCEPT !.escaped = FALSE]
    IN  CASE ch \in DOMAIN FORMAT_TYPE_LEN_DICT -> FormatInteger(s1, ch, as)
          [] ch \in {"x", "s", "z"} -> FormatArray(s1, ch, as)
          [] ch \in {"*", "#"} -> FormatRaw(s1, as)
          [] ch \in {"B", "W"} -> FormatBcd(s1, ch, as)
          [] OTHER -> Fail(s1, UnrecognizedChar(ch))

\* the match on an escaped character, after `escaped = false'
FormatDirective(st, ch, as) ==
    LET s1 == [st EXCEPT !.escaped = FALSE]
    IN  CASE ch \in DOMAIN FORMAT_TYPE_LEN_DICT -> FormatInteger(s1, ch, as)
          [] ch \in {"x", "s", "z"} -> FormatArray(s1, ch, as)
          [] ch = "*" -> FormatRaw(s1, as)
          [] ch \in {"B", "W"} -> FormatBcd(s1, ch, as)
          [] OTHER -> Fail(s1, UnrecognizedChar(ch))

\* a character outside escape mode
FormatPlain(st, ch) ==
    IF ch = "%" THEN [st EXCEPT !.escaped = TRUE]
    ELSE IF ch = " " THEN st
    ELSE IF st.half = NoChar THEN [st EXCEPT !.half = ch]
    ELSE IF from_str_radix(st.half, ch) < 0 THEN Panic(st, "ParseIntError")
    ELSE [st EXCEPT !.result = Append(@, from_str_radix(st.half, ch)), !.half = NoChar]

TakesOverride(st, ch) ==
    st.escaped /\ st.endianness_override = NoChar /\ ch \in {"<", ">"}

\* one iteration of `for character in format.chars()'
FormatChar(st, ch, as) ==
    LET n == IF TakesOverride(st, ch) THEN FormatOverride(st, ch)
             ELSE IF st.escaped THEN FormatDirective(st, ch, as)
             ELSE FormatPlain(st, ch)
    IN  [n EXCEPT !.pos = st.pos + 1]

\* the end of the loop: Ok(result)
FormatEnd(st) == [st EXCEPT !.status = "Ok"]

\* ----------------------------------------------------------------- decoder
\* input_stack is the input and `taken', the number of bytes already taken
\* from it; input_stack.len() is what is left.
Remaining(st, input) == Len(input) - st.taken

\* Iterator::next without unwrap: takes a byte if there is one
Skip(st, input) == [st EXCEPT !.taken = IF @ < Len(input) THEN @ + 1 ELSE @]

\* the next n bytes of input_stack
Peek(st, input, n) == SubSeq(input, st.taken + 1, st.taken + n)

ScanIdle ==
    [pos |-> 1, taken |-> 0, result |-> <<>>, half |-> NoChar,
     endianness_override |-> NoChar, escaped |-> FALSE,
     status |-> "Idle", err |-> NoErr]

\* the framing byte is kept in the input
ScanLocalsKeep(input) == [ScanIdle EXCEPT !.status = "Running"]

\* The locals of scan_query before its loop, the first byte already removed.
ScanLocals(input) == Skip([ScanIdle EXCEPT !.status = "Running"], input)

ScanOverride(st, ch) == [st EXCEPT !.endianness_override = ch]

\* utils::get_bytes::<n>: the next n bytes as an array; fails when fewer are left
get_bytes(st, input, n) == IF Remaining(st, input) < n THEN <<>> ELSE Peek(st, input, n)

\* `w' is read as an unsigned 16-bit number
ScanIntegerUnsigned(st, ch, input) ==
    LET width == FORMAT_TYPE_LEN_DICT[ch]
    IN  IF get_bytes(st, input, width) = <<>> THEN Panic(st, "NoInput")
        ELSE LET new_value == from_be_bytes(get_bytes(st, input, width),
                                            ch \notin {"b", "w"})
             IN  [st EXCEPT !.taken = @ + width,
                            !.result = Append(@, Number(new_value)),
                            !.endianness_override = NoChar]

ScanInteger(st, ch, input) ==
    LET width == FORMAT_TYPE_LEN_DICT[ch]
    IN  IF get_bytes(st, input, width) = <<>> THEN Panic(st, "NoInput")
        ELSE LET new_value == from_be_bytes(get_bytes(st, input, width), ch # "b")
             IN  [st EXCEPT !.taken = @ + width,
                            !.result = Append(@, Number(new_value)),
                            !.endianness_override = NoChar]

\* the zero byte counted by the prefix of `s' is dropped from the array
ScanArrayTrim(st, ch, input) ==
    LET prefix == IF ch = "z" THEN 1 ELSE 2
    IN  IF Remaining(st, input) < prefix THEN Panic(st, "NoInput")
        ELSE LET length == from_be_bytes(Peek(st, input, prefix), FALSE)
                 s1 == [st EXCEPT !.taken = @ + prefix]
                 kept == IF ch = "s" /\ length > 0 THEN length - 1 ELSE length
             IN  IF Remaining(s1, input) < length THEN Panic(s1, "NoInput")
                 ELSE [s1 EXCEPT !.taken = @ + length,
                                 !.result = Append(@, Array(Peek(s1, input, kept)))]

ScanArray(st, ch, input) ==
    LET prefix == IF ch = "z" THEN 1 ELSE 2
    IN  IF Remaining(st, input) < prefix THEN Panic(st, "NoInput")
        ELSE LET length == from_be_bytes(Peek(st, input, prefix), FALSE)
                 s1 == [st EXCEPT !.taken = @ + prefix]
             IN  IF Remaining(s1, input) < length THEN Panic(s1, "NoInput")
                 ELSE [s1 EXCEPT !.taken = @ + length,
                                 !.result = Append(@, Array(Peek(s1, input, length)))]

\* `*' and `#': everything that is left, at most initial_length bytes
ScanRest(st, input) ==
    LET initial_length == Len(input)
        n == IF Remaining(st, input) < initial_length
             THEN Remaining(st, input) ELSE initial_length
    IN  [st EXCEPT !.taken = @ + n, !.result = Append(@, Array(Peek(st, input, n)))]

ScanBcd(st, ch, input) ==
    LET width == IF ch = "W" THEN 2 ELSE 1
    IN  IF Remaining(st, input) < width THEN Panic(st, "NoInput")
        ELSE LET v == from_be_bytes(Peek(st, input, width), FALSE)
             IN  [st EXCEPT !.taken = @ + width,
                            !.result = Append(@, Number(bcd_to_int(v)))]

\* the escaped character after `escaped = false'
ScanDirective(st, ch, input) ==
    LET s1 == [st EXCEPT !.escaped = FALSE]
    IN  CASE ch = "?" -> Skip(s1, input)
          [] ch \in DOMAIN FORMAT_TYPE_LEN_DICT -> ScanInteger(s1, ch, input)
          [] ch \in {"x", "s", "z"} -> ScanArray(s1, ch, input)
          [] ch \in {"*", "#"} -> ScanRest(s1, input)
          [] ch \in {"B", "W"} -> ScanBcd(s1, ch, input)
          [] OTHER -> Fail(s1, UnrecognizedChar(ch))

\* the index counts the bytes after the framing byte
ScanLiteralPost(st, ch, input) ==
    IF Remaining(st, input) < 1 THEN Panic(st, "NoInput")
    ELSE IF from_str_radix(st.half, ch) < 0
         THEN Panic(Skip(st, input), "ParseIntError")
    ELSE LET input_value == input[st.taken + 1]
             format_value == from_str_radix(st.half, ch)
             s1 == Skip(st, input)
         IN  IF format_value # input_value
             THEN Fail(s1, InputMismatch(Len(input) - Remaining(s1, input) - 2,
                                         format_value, input_value))
             ELSE [s1 EXCEPT !.half = NoChar]

\* the second nibble of a literal byte: compare it with the next input byte
ScanLiteral(st, ch, input) ==
    IF Remaining(st, input) < 1 THEN Panic(st, "NoInput")
    ELSE IF from_str_radix(st.half, ch) < 0
         THEN Panic(Skip(st, input), "ParseIntError")
    ELSE LET input_value == input[st.taken + 1]
             format_value == from_str_radix(st.half, ch)
             s1 == Skip(st, input)
         IN  IF format_value # input_value
             THEN Fail(s1, InputMismatch(Len(input) - Remaining(s1, input) - 1,
                                         format_value, input_value))
             ELSE [s1 EXCEPT !.half = NoChar]

\* a character outside escape mode
ScanPlain(st, ch, input) ==
    IF ch = "%"
    THEN IF st.half # NoChar THEN Panic(st, "AssertHalf")
         ELSE [st EXCEPT !.escaped = TRUE]
    ELSE IF ch = " " THEN st
    ELSE IF st.half = NoChar THEN [st EXCEPT !.half = ch]
    ELSE ScanLiteral(st, ch, input)

\* one iteration of `for character in format.chars()'
ScanChar(st, ch, input) ==
    LET n == IF TakesOverride(st, ch) THEN ScanOverride(st, ch)
             ELSE IF st.escaped THEN ScanDirective(st, ch, input)
             ELSE ScanPlain(st, ch, input)
    IN  [n EXCEPT !.pos = st.pos + 1]

\* returns Ok with input left over
ScanEndLax(st, input) == [st EXCEPT !.status = "Ok"]

\* the end of the loop: assert_eq!(input_stack.len(), 0); Ok(result)
ScanEnd(st, input) ==
    IF Remaining(st, input) # 0 THEN Panic(st, "AssertConsumed")
    ELSE [st EXCEPT !.status = "Ok"]

RECURSIVE ScanLoop(_, _, _)
ScanLoop(st, fmt, input) ==
    IF st.status # "Running" THEN st
    ELSE IF st.pos > Len(fmt) THEN ScanEnd(st, input)
    ELSE ScanLoop(ScanChar(st, fmt[st.pos], input), fmt, input)

\* scan_query as a function of its two arguments
scan_query(input, fmt) == ScanLoop(ScanLocals(input), fmt, input)

\* what the caller of a finished call sees: Ok(values), Err(error) or a panic
Outcome(st) ==
    [status |-> st.status,
     value |-> IF st.status = "Ok" THEN st.result ELSE <<>>,
     err |-> IF st.status = "Ok" THEN NoErr ELSE st.err]

\* ------------------------------------------------------------------ inputs
\* The directive and literal tokens format strings are built from.
Tokens ==
    {<<"%", "b">>, <<"%", "w">>, <<"%", "d">>, <<"%", "q">>, <<"%", "<", "w">>,
     <<"%", "x">>, <<"%", "<", "x">>, <<"%", "s">>, <<"%", "z">>,
     <<"%", "*">>, <<"%", "#">>, <<"%", "?">>, <<"%", "B">>, <<"%", "W">>,
     <<"%", "k">>, <<"F", " ", "F">>}

RECURSIVE Flatten(_)
Flatten(ts) == IF ts = <<>> THEN <<>> ELSE Head(ts) \o Flatten(Tail(ts))

Formats == {Flatten(ts) : ts \in UNION {[1..n -> Tokens] : n \in 0..MaxTokens}}

Zeros256 == [i \in 1..256 |-> 0]

Values ==
    {Number(-1), Number(1), Number(42), Array(<<65, 66>>), Array(Zeros256)}

ArgLists == UNION {[1..n -> Values] : n \in 0..MaxArgs}

\* bytes of a reply the caller supplies itself, and framing bytes put in front
\* of an encoded query
ReplyBytes == {1, 255}

FrameBytes == {0, 255}

Inputs == UNION {[1..n -> ReplyBytes] : n \in 0..MaxInput}

\* ----------------------------------------------------------- state machine
\* Either format_query has been called with (format, args), or scan_query has
\* been called with (query_result, format).
Init ==
    /\ format \in Formats
    /\ \/ /\ args \in ArgLists
          /\ query_result = <<>>
          /\ fq = FormatLocals
          /\ sq = ScanIdle
          /\ link = "none"
       \/ /\ args = <<>>
          /\ query_result \in Inputs
          /\ fq = FormatIdle
          /\ sq = [ScanIdle EXCEPT !.status = "Called"]
          /\ link = "free"

FormatRunning == fq.status = "Running" /\ fq.pos <= Len(format)

\* format_query: `<' or `>' right after `%'
FormatStepOverride ==
    /\ FormatRunning
    /\ TakesOverride(fq, format[fq.pos])
    /\ fq' = FormatChar(fq, format[fq.pos], args)
    /\ UNCHANGED <<format, args, query_result, sq, link>>

\* format_query: the directive character
FormatStepDirective ==
    /\ FormatRunning
    /\ fq.escaped
    /\ ~TakesOverride(fq, format[fq.pos])
    /\ fq' = FormatChar(fq, format[fq.pos], args)
    /\ UNCHANGED <<format, args, query_result, sq, link>>

\* format_query: `%', a space or a nibble of a literal byte
FormatStepPlain ==
    /\ FormatRunning
    /\ ~fq.escaped
    /\ fq' = FormatChar(fq, format[fq.pos], args)
    /\ UNCHANGED <<format, args, query_result, sq, link>>

FormatReturn ==
    /\ fq.status = "Running"
    /\ fq.pos > Len(format)
    /\ fq' = FormatEnd(fq)
    /\ UNCHANGED <<format, args, query_result, sq, link>>

\* The caller passes the encoded query, behind a framing byte, to scan_query
\* with the same format.
Reply ==
    /\ fq.status = "Ok"
    /\ link = "none"
    /\ \E frame \in FrameBytes : query_result' = <<frame>> \o fq.result
    /\ sq' = [ScanIdle EXCEPT !.status = "Called"]
    /\ link' = "framed"
    /\ UNCHANGED <<format, args, fq>>

\* The caller passes the encoded query as it is to scan_query.
ReplyUnframed ==
    /\ fq.status = "Ok"
    /\ link = "none"
    /\ query_result' = fq.result
    /\ sq' = [ScanIdle EXCEPT !.status = "Called"]
    /\ link' = "unframed"
    /\ UNCHANGED <<format, args, fq>>

ScanBegin ==
    /\ sq.status = "Called"
    /\ sq' = ScanLocals(query_result)
    /\ UNCHANGED <<format, args, query_result, fq, link>>

ScanRunning == sq.status = "Running" /\ sq.pos <= Len(format)

\* scan_query: `<' or `>' right after `%'
ScanStepOverride ==
    /\ ScanRunning
    /\ TakesOverride(sq, format[sq.pos])
    /\ sq' = ScanChar(sq, format[sq.pos], query_result)
    /\ UNCHANGED <<format, args, query_result, fq, link>>

\* scan_query: the directive character
ScanStepDirective ==
    /\ ScanRunning
    /\ sq.escaped
    /\ ~TakesOverride(sq, format[sq.pos])
    /\ sq' = ScanChar(sq, format[sq.pos], query_result)
    /\ UNCHANGED <<format, args, query_result, fq, link>>

\* scan_query: `%', a space or a nibble of a literal byte
ScanStepPlain ==
    /\ ScanRunning
    /\ ~sq.escaped
    /\ sq' = ScanChar(sq, format[sq.pos], query_result)
    /\ UNCHANGED <<format, args, query_result, fq, link>>

ScanReturn ==
    /\ sq.status = "Running"
    /\ sq.pos > Len(format)
    /\ sq' = ScanEnd(sq, query_result)
    /\ UNCHANGED <<format, args, query_result, fq, link>>

Next ==
    \/ FormatStepOverride
    \/ FormatStepDirective
    \/ FormatStepPlain
    \/ FormatReturn
    \/ Reply
    \/ ReplyUnframed
    \/ ScanBegin
    \/ ScanStepOverride
    \/ ScanStepDirective
    \/ ScanStepPlain
    \/ ScanReturn

Spec == Init /\ [][Next]_vars

\* ------------------------------------------------------------------ claims
Done(st) == st.status \in {"Ok", "Err", "Panic"}

\* the format is a sequence of %-directives out of b w d q x z B W, each with
\* at most one `<' or `>' in front, and holds no literal byte
DirectivesOnly ==
    \A i \in 1..Len(format) :
        /\ format[i] \in {"%", "<", ">", "b", "w", "d", "q", "x", "z", "B", "W"}
        /\ format[i] = "%" => i < Len(format) /\ format[i + 1] # "%"
        /\ format[i] \in {"<", ">"} => i > 1 /\ i < Len(format) /\ format[i - 1] = "%"
                                        /\ format[i + 1] \notin {"<", ">"}
        /\ format[i] \notin {"%", "<", ">"} => i > 1 /\ format[i - 1] \in {"%", "<", ">"}

DirectiveChars == SelectSeq(format, LAMBDA c : c \notin {"%", "<", ">"})

ArgsMatch ==
    /\ Len(args) = Len(DirectiveChars)
    /\ \A i \in 1..Len(args) :
           (args[i].tag = "Array") <=> (DirectiveChars[i] \in {"x", "z"})

\* argument i can be written in the width of its directive
Representable(i) ==
    LET c == DirectiveChars[i]
        v == args[i]
    IN  CASE c = "b" -> v.n \in 0..255
          [] c = "w" -> v.n \in -32768..32767
          [] c = "B" -> v.n \in 0..99
          [] c = "W" -> v.n \in 0..9999
          [] c = "x" -> Len(v.a) < 65536
          [] c = "z" -> Len(v.a) < 256
          [] OTHER -> TRUE

LiteralAt(j) ==
    LET i == CHOOSE i \in 1..(j - 1) :
                 format[i] # " " /\ \A k \in (i + 1)..(j - 1) : format[k] = " "
    IN  16 * HexValue(format[i]) + HexValue(format[j])

MismatchReported == sq.status = "Err" /\ sq.err.kind = "InputMismatch"

\* C2 as stated: an InputMismatch carries the literal byte, the input byte and
\* the offset of that byte counted after the framing byte.
MismatchIndexAfterFraming ==
    MismatchReported =>
        /\ sq.err.expected = LiteralAt(sq.pos - 1)
        /\ sq.err.actual = query_result[sq.taken]
        /\ sq.err.index = sq.taken - 2

\* C2 amended: the index is the offset of the byte in the whole input, the
\* framing byte counted (index 1 for the first byte after the framing byte).
MismatchIndex ==
    MismatchReported =>
        /\ sq.err.expected = LiteralAt(sq.pos - 1)
        /\ sq.err.actual = query_result[sq.taken]
        /\ sq.err.expected # sq.err.actual
        /\ sq.err.index = sq.taken - 1
        /\ query_result[sq.err.index + 1] = sq.err.actual

MismatchIndexWitness ==
    /\ MismatchReported
    /\ sq.taken = 2 /\ sq.err.index = 1
    /\ sq.err.expected = 255 /\ sq.err.actual = 1

\* C3: scan_query returns Ok only with no input byte left.
FullConsumption ==
    /\ sq.status = "Ok" => (sq.pos > Len(format) /\ Len(query_result) - sq.taken = 0)
    /\ (Done(sq) /\ sq.taken < Len(query_result)) => sq.status # "Ok"

FullConsumptionWitness ==
    /\ link = "free" /\ sq.status = "Ok"
    /\ Len(query_result) = 3 /\ Len(sq.result) = 2

\* C4: the outcome of scan_query is the same whatever the first byte is, and
\* input [0xFF, 0x01] with format %b gives [Number(1)].
FramingByteSkip ==
    (Done(sq) /\ query_result # <<>>) =>
        /\ \A first \in {0, 1, 255} :
               Outcome(scan_query(<<first>> \o Tail(query_result), format)) = Outcome(sq)
        /\ (query_result = <<255, 1>> /\ format = <<"%", "b">>)
               => (sq.status = "Ok" /\ sq.result = <<Number(1)>>)

FramingByteSkipWitness ==
    /\ query_result = <<255, 1>> /\ format = <<"%", "b">>
    /\ sq.status = "Ok" /\ sq.result = <<Number(1)>>

EncodeDirectives == {"b", "w", "d", "q", "x", "s", "z", "*", "B", "W"}

DecodeDirectives == EncodeDirectives \cup {"?", "#"}

\* st is about to dispatch on the escaped character at its position
AtDirective(st) ==
    /\ st.status = "Running" /\ st.pos <= Len(format) /\ st.escaped
    /\ ~(st.endianness_override = NoChar /\ format[st.pos] \in {"<", ">"})

\* C5: an escaped character outside the recognized set of the direction ends
\* the call with UnrecognizedChar of that character; `?' and `#' are outside
\* the encoder's set.
UnrecognizedDirective ==
    [][/\ (AtDirective(fq) /\ format[fq.pos] \notin EncodeDirectives)
            => (fq'.status = "Err" /\ fq'.err = UnrecognizedChar(format[fq.pos]))
       /\ (AtDirective(sq) /\ format[sq.pos] \notin DecodeDirectives)
            => (sq'.status = "Err" /\ sq'.err = UnrecognizedChar(format[sq.pos]))
      ]_vars

UnrecognizedDirectiveWitness ==
    /\ fq.status = "Err" /\ fq.err = UnrecognizedChar("#")
    /\ format[fq.pos - 1] = "#" /\ fq.arg = 1

\* C6: an argument of the wrong variant ends format_query with a returned
\* TypeMismatch error.
TypeMismatchReturned == fq.err.kind = "TypeMismatch" => fq.status = "Err"

\* the step of format_query that encodes argument fq.arg + 1 for character c
Encodes(c, tag) ==
    /\ AtDirective(fq) /\ format[fq.pos] = c
    /\ fq.arg < Len(args) /\ args[fq.arg + 1].tag = tag

\* what a step of format_query appended to the result
Appended == SubSeq(fq'.result, Len(fq.result) + 1, Len(fq'.result))

\* the step appended a prefix of `width' bytes holding `value', the array and,
\* for s, a zero byte
PrefixedArray(c, width, value) ==
    LET A == args[fq.arg + 1].a
    IN  /\ fq'.status = "Running"
        /\ SubSeq(fq'.result, 1, Len(fq.result)) = fq.result
        /\ Len(Appended) = width + Len(A) + (IF c = "s" THEN 1 ELSE 0)
        /\ BeValue(SubSeq(Appended, 1, width), 0) = value
        /\ SubSeq(Appended, width + 1, width + Len(A)) = A
        /\ c = "s" => Appended[Len(Appended)] = 0

\* C7 as stated: the prefix holds the emitted length, for an array of any
\* length.
LengthPrefixExact ==
    [][\A c \in {"x", "s", "z"} :
          Encodes(c, "Array") =>
              LET n == Len(args[fq.arg + 1].a)
              IN  PrefixedArray(c, IF c = "z" THEN 1 ELSE 2, IF c = "s" THEN n + 1 ELSE n)
      ]_vars

\* C7 amended: the prefix holds the emitted length modulo 256 for z and modulo
\* 65536 for x and s.
LengthPrefix ==
    [][\A c \in {"x", "s", "z"} :
          Encodes(c, "Array") =>
              LET n == Len(args[fq.arg + 1].a)
                  emitted == IF c = "s" THEN n + 1 ELSE n
              IN  /\ PrefixedArray(c, IF c = "z" THEN 1 ELSE 2,
                                   emitted % (IF c = "z" THEN 256 ELSE 65536))
                  /\ (c = "s" /\ args[fq.arg + 1].a = <<65, 66>>)
                        => Appended = <<0, 3, 65, 66, 0>>
                  /\ (c = "z" /\ args[fq.arg + 1].a = <<65, 66>>)
                        => Appended = <<2, 65, 66>>
      ]_vars

LengthPrefixWitness ==
    /\ fq.status = "Ok" /\ format = <<"%", "z", "%", "s">>
    /\ args = <<Array(Zeros256), Array(<<65, 66>>)>>
    /\ Len(fq.result) = 262 /\ fq.result[1] = 0

StringReply ==
    /\ link = "framed" /\ Done(sq) /\ format = <<"%", "s">>
    /\ Len(args) = 1 /\ args[1].tag = "Array" /\ Len(args[1].a) + 1 < 65536

\* C8 as stated: decoding an encoded s gives the array back without the
\* zero byte.
StringDecodeTrimmed ==
    StringReply => (sq.status = "Ok" /\ sq.result = <<Array(args[1].a)>>)

\* C8 amended: decoding an encoded s gives the array followed by the zero
\* byte (for an array shorter than 65535 bytes).
StringDecode ==
    StringReply => (sq.status = "Ok" /\ sq.result = <<Array(args[1].a \o <<0>>)>>)

StringDecodeWitness ==
    /\ StringReply /\ args[1].a = <<65, 66>>
    /\ sq.status = "Ok" /\ sq.result = <<Array(<<65, 66, 0>>)>>

\* C9: outside escape mode no endianness override is recorded, in the encoder
\* and in the decoder.
OverrideCleared ==
    /\ (fq.status = "Running" /\ ~fq.escaped) => fq.endianness_override = NoChar
    /\ (sq.status = "Running" /\ ~sq.escaped) => sq.endianness_override = NoChar

\* the big-endian two's complement reading of the bytes
TwosComplement(bytes) ==
    IF bytes[1] >= 128 THEN BeValue(Tail(bytes), bytes[1] - 256) ELSE BeValue(bytes, 0)

====
